---- MODULE Spec2Model ----
(***************************************************************************)
(* Model of promptulate/tools/arxiv/tools.py: ArxivReferenceTool.run and   *)
(* ArxivSummaryTool.run, the handlers they register on the process-wide    *)
(* broadcast_service topics, and the worker threads that execute them.     *)
(*                                                                         *)
(* Text is a sequence of characters, each a string.  The buffers           *)
(* reference_string / summary_string are sequences of fragments, one       *)
(* fragment per "+=" of a handler (or the paper metadata assigned by       *)
(* ArxivSummaryTool.run).  A fragment is a triple <<text, run, pub>>: what *)
(* it holds, the call of run() whose paper_summary it was made from (0 for *)
(* a lookup result), and the call of run() whose publish produced it.      *)
(***************************************************************************)
EXTENDS Integers, Sequences, FiniteSets, TLC

(***************************************************************************)
(* Bounds of the model.                                                    *)
(***************************************************************************)
\* number of calls of run() the main thread makes in one process
MaxRuns == 2
\* number of worker threads that execute handler invocations
NumWorkers == 2
\* number of collaborator calls of handlers that raise in one process
MaxFailures == 1

(***************************************************************************)
(* Text helpers (Python str semantics).                                    *)
(***************************************************************************)
\* A character outside printable ASCII that has no escape of its own
\* (\t, \n, \f, \r) is written as its code point, "U+0663" for ARABIC-INDIC
\* DIGIT THREE: one element of a text, like any other character.

\* the characters \d matches in a str pattern: the decimal digits of
\* Unicode (category Nd), ten per script
Digits ==
    {"0", "1", "2", "3", "4", "5", "6", "7", "8", "9",
     "U+0660", "U+0661", "U+0662", "U+0663", "U+0664", "U+0665", "U+0666", "U+0667", "U+0668", "U+0669",
     "U+06F0", "U+06F1", "U+06F2", "U+06F3", "U+06F4", "U+06F5", "U+06F6", "U+06F7", "U+06F8", "U+06F9",
     "U+07C0", "U+07C1", "U+07C2", "U+07C3", "U+07C4", "U+07C5", "U+07C6", "U+07C7", "U+07C8", "U+07C9",
     "U+0966", "U+0967", "U+0968", "U+0969", "U+096A", "U+096B", "U+096C", "U+096D", "U+096E", "U+096F",
     "U+09E6", "U+09E7", "U+09E8", "U+09E9", "U+09EA", "U+09EB", "U+09EC", "U+09ED", "U+09EE", "U+09EF",
     "U+0A66", "U+0A67", "U+0A68", "U+0A69", "U+0A6A", "U+0A6B", "U+0A6C", "U+0A6D", "U+0A6E", "U+0A6F",
     "U+0AE6", "U+0AE7", "U+0AE8", "U+0AE9", "U+0AEA", "U+0AEB", "U+0AEC", "U+0AED", "U+0AEE", "U+0AEF",
     "U+0B66", "U+0B67", "U+0B68", "U+0B69", "U+0B6A", "U+0B6B", "U+0B6C", "U+0B6D", "U+0B6E", "U+0B6F",
     "U+0BE6", "U+0BE7", "U+0BE8", "U+0BE9", "U+0BEA", "U+0BEB", "U+0BEC", "U+0BED", "U+0BEE", "U+0BEF",
     "U+0C66", "U+0C67", "U+0C68", "U+0C69", "U+0C6A", "U+0C6B", "U+0C6C", "U+0C6D", "U+0C6E", "U+0C6F",
     "U+0CE6", "U+0CE7", "U+0CE8", "U+0CE9", "U+0CEA", "U+0CEB", "U+0CEC", "U+0CED", "U+0CEE", "U+0CEF",
     "U+0D66", "U+0D67", "U+0D68", "U+0D69", "U+0D6A", "U+0D6B", "U+0D6C", "U+0D6D", "U+0D6E", "U+0D6F",
     "U+0DE6", "U+0DE7", "U+0DE8", "U+0DE9", "U+0DEA", "U+0DEB", "U+0DEC", "U+0DED", "U+0DEE", "U+0DEF",
     "U+0E50", "U+0E51", "U+0E52", "U+0E53", "U+0E54", "U+0E55", "U+0E56", "U+0E57", "U+0E58", "U+0E59",
     "U+0ED0", "U+0ED1", "U+0ED2", "U+0ED3", "U+0ED4", "U+0ED5", "U+0ED6", "U+0ED7", "U+0ED8", "U+0ED9",
     "U+0F20", "U+0F21", "U+0F22", "U+0F23", "U+0F24", "U+0F25", "U+0F26", "U+0F27", "U+0F28", "U+0F29",
     "U+1040", "U+1041", "U+1042", "U+1043", "U+1044", "U+1045", "U+1046", "U+1047", "U+1048", "U+1049",
     "U+1090", "U+1091", "U+1092", "U+1093", "U+1094", "U+1095", "U+1096", "U+1097", "U+1098", "U+1099",
     "U+17E0", "U+17E1", "U+17E2", "U+17E3", "U+17E4", "U+17E5", "U+17E6", "U+17E7", "U+17E8", "U+17E9",
     "U+1810", "U+1811", "U+1812", "U+1813", "U+1814", "U+1815", "U+1816", "U+1817", "U+1818", "U+1819",
     "U+1946", "U+1947", "U+1948", "U+1949", "U+194A", "U+194B", "U+194C", "U+194D", "U+194E", "U+194F",
     "U+19D0", "U+19D1", "U+19D2", "U+19D3", "U+19D4", "U+19D5", "U+19D6", "U+19D7", "U+19D8", "U+19D9",
     "U+1A80", "U+1A81", "U+1A82", "U+1A83", "U+1A84", "U+1A85", "U+1A86", "U+1A87", "U+1A88", "U+1A89",
     "U+1A90", "U+1A91", "U+1A92", "U+1A93", "U+1A94", "U+1A95", "U+1A96", "U+1A97", "U+1A98", "U+1A99",
     "U+1B50", "U+1B51", "U+1B52", "U+1B53", "U+1B54", "U+1B55", "U+1B56", "U+1B57", "U+1B58", "U+1B59",
     "U+1BB0", "U+1BB1", "U+1BB2", "U+1BB3", "U+1BB4", "U+1BB5", "U+1BB6", "U+1BB7", "U+1BB8", "U+1BB9",
     "U+1C40", "U+1C41", "U+1C42", "U+1C43", "U+1C44", "U+1C45", "U+1C46", "U+1C47", "U+1C48", "U+1C49",
     "U+1C50", "U+1C51", "U+1C52", "U+1C53", "U+1C54", "U+1C55", "U+1C56", "U+1C57", "U+1C58", "U+1C59",
     "U+A620", "U+A621", "U+A622", "U+A623", "U+A624", "U+A625", "U+A626", "U+A627", "U+A628", "U+A629",
     "U+A8D0", "U+A8D1", "U+A8D2", "U+A8D3", "U+A8D4", "U+A8D5", "U+A8D6", "U+A8D7", "U+A8D8", "U+A8D9",
     "U+A900", "U+A901", "U+A902", "U+A903", "U+A904", "U+A905", "U+A906", "U+A907", "U+A908", "U+A909",
     "U+A9D0", "U+A9D1", "U+A9D2", "U+A9D3", "U+A9D4", "U+A9D5", "U+A9D6", "U+A9D7", "U+A9D8", "U+A9D9",
     "U+A9F0", "U+A9F1", "U+A9F2", "U+A9F3", "U+A9F4", "U+A9F5", "U+A9F6", "U+A9F7", "U+A9F8", "U+A9F9",
     "U+AA50", "U+AA51", "U+AA52", "U+AA53", "U+AA54", "U+AA55", "U+AA56", "U+AA57", "U+AA58", "U+AA59",
     "U+ABF0", "U+ABF1", "U+ABF2", "U+ABF3", "U+ABF4", "U+ABF5", "U+ABF6", "U+ABF7", "U+ABF8", "U+ABF9",
     "U+FF10", "U+FF11", "U+FF12", "U+FF13", "U+FF14", "U+FF15", "U+FF16", "U+FF17", "U+FF18", "U+FF19",
     "U+104A0", "U+104A1", "U+104A2", "U+104A3", "U+104A4", "U+104A5", "U+104A6", "U+104A7", "U+104A8", "U+104A9",
     "U+10D30", "U+10D31", "U+10D32", "U+10D33", "U+10D34", "U+10D35", "U+10D36", "U+10D37", "U+10D38", "U+10D39",
     "U+11066", "U+11067", "U+11068", "U+11069", "U+1106A", "U+1106B", "U+1106C", "U+1106D", "U+1106E", "U+1106F",
     "U+110F0", "U+110F1", "U+110F2", "U+110F3", "U+110F4", "U+110F5", "U+110F6", "U+110F7", "U+110F8", "U+110F9",
     "U+11136", "U+11137", "U+11138", "U+11139", "U+1113A", "U+1113B", "U+1113C", "U+1113D", "U+1113E", "U+1113F",
     "U+111D0", "U+111D1", "U+111D2", "U+111D3", "U+111D4", "U+111D5", "U+111D6", "U+111D7", "U+111D8", "U+111D9",
     "U+112F0", "U+112F1", "U+112F2", "U+112F3", "U+112F4", "U+112F5", "U+112F6", "U+112F7", "U+112F8", "U+112F9",
     "U+11450", "U+11451", "U+11452", "U+11453", "U+11454", "U+11455", "U+11456", "U+11457", "U+11458", "U+11459",
     "U+114D0", "U+114D1", "U+114D2", "U+114D3", "U+114D4", "U+114D5", "U+114D6", "U+114D7", "U+114D8", "U+114D9",
     "U+11650", "U+11651", "U+11652", "U+11653", "U+11654", "U+11655", "U+11656", "U+11657", "U+11658", "U+11659",
     "U+116C0", "U+116C1", "U+116C2", "U+116C3", "U+116C4", "U+116C5", "U+116C6", "U+116C7", "U+116C8", "U+116C9",
     "U+11730", "U+11731", "U+11732", "U+11733", "U+11734", "U+11735", "U+11736", "U+11737", "U+11738", "U+11739",
     "U+118E0", "U+118E1", "U+118E2", "U+118E3", "U+118E4", "U+118E5", "U+118E6", "U+118E7", "U+118E8", "U+118E9",
     "U+11950", "U+11951", "U+11952", "U+11953", "U+11954", "U+11955", "U+11956", "U+11957", "U+11958", "U+11959",
     "U+11C50", "U+11C51", "U+11C52", "U+11C53", "U+11C54", "U+11C55", "U+11C56", "U+11C57", "U+11C58", "U+11C59",
     "U+11D50", "U+11D51", "U+11D52", "U+11D53", "U+11D54", "U+11D55", "U+11D56", "U+11D57", "U+11D58", "U+11D59",
     "U+11DA0", "U+11DA1", "U+11DA2", "U+11DA3", "U+11DA4", "U+11DA5", "U+11DA6", "U+11DA7", "U+11DA8", "U+11DA9",
     "U+16A60", "U+16A61", "U+16A62", "U+16A63", "U+16A64", "U+16A65", "U+16A66", "U+16A67", "U+16A68", "U+16A69",
     "U+16AC0", "U+16AC1", "U+16AC2", "U+16AC3", "U+16AC4", "U+16AC5", "U+16AC6", "U+16AC7", "U+16AC8", "U+16AC9",
     "U+16B50", "U+16B51", "U+16B52", "U+16B53", "U+16B54", "U+16B55", "U+16B56", "U+16B57", "U+16B58", "U+16B59",
     "U+1D7CE", "U+1D7CF", "U+1D7D0", "U+1D7D1", "U+1D7D2", "U+1D7D3", "U+1D7D4", "U+1D7D5", "U+1D7D6", "U+1D7D7",
     "U+1D7D8", "U+1D7D9", "U+1D7DA", "U+1D7DB", "U+1D7DC", "U+1D7DD", "U+1D7DE", "U+1D7DF", "U+1D7E0", "U+1D7E1",
     "U+1D7E2", "U+1D7E3", "U+1D7E4", "U+1D7E5", "U+1D7E6", "U+1D7E7", "U+1D7E8", "U+1D7E9", "U+1D7EA", "U+1D7EB",
     "U+1D7EC", "U+1D7ED", "U+1D7EE", "U+1D7EF", "U+1D7F0", "U+1D7F1", "U+1D7F2", "U+1D7F3", "U+1D7F4", "U+1D7F5",
     "U+1D7F6", "U+1D7F7", "U+1D7F8", "U+1D7F9", "U+1D7FA", "U+1D7FB", "U+1D7FC", "U+1D7FD", "U+1D7FE", "U+1D7FF",
     "U+1E140", "U+1E141", "U+1E142", "U+1E143", "U+1E144", "U+1E145", "U+1E146", "U+1E147", "U+1E148", "U+1E149",
     "U+1E2F0", "U+1E2F1", "U+1E2F2", "U+1E2F3", "U+1E2F4", "U+1E2F5", "U+1E2F6", "U+1E2F7", "U+1E2F8", "U+1E2F9",
     "U+1E950", "U+1E951", "U+1E952", "U+1E953", "U+1E954", "U+1E955", "U+1E956", "U+1E957", "U+1E958", "U+1E959",
     "U+1FBF0", "U+1FBF1", "U+1FBF2", "U+1FBF3", "U+1FBF4", "U+1FBF5", "U+1FBF6", "U+1FBF7", "U+1FBF8", "U+1FBF9"}

\* the characters \s matches in a str pattern: the whitespace of Unicode
Whitespace ==
    {"\t", "\n", "U+000B", "\f", "\r", "U+001C", "U+001D", "U+001E",
     "U+001F", " ", "U+0085", "U+00A0", "U+1680", "U+2000", "U+2001", "U+2002",
     "U+2003", "U+2004", "U+2005", "U+2006", "U+2007", "U+2008", "U+2009", "U+200A",
     "U+2028", "U+2029", "U+202F", "U+205F", "U+3000"}

Slice(s, a, b) == [k \in 1..(b - a + 1) |-> s[a + k - 1]]

\* s[i..] starts with p
StartsAt(s, i, p) ==
    /\ i >= 1
    /\ i + Len(p) - 1 <= Len(s)
    /\ \A k \in 1..Len(p) : s[i + k - 1] = p[k]

\* Python: p in s
Contains(s, p) == \E i \in 1..(Len(s) + 1) : StartsAt(s, i, p)

\* Python: s.split(c) for a one-character separator c
RECURSIVE Split(_, _)
Split(s, c) ==
    IF \E i \in 1..Len(s) : s[i] = c
    THEN LET i == CHOOSE k \in 1..Len(s) :
                      s[k] = c /\ \A m \in 1..(k - 1) : s[m] # c
         IN  <<Slice(s, 1, i - 1)>> \o Split(Slice(s, i + 1, Len(s)), c)
    ELSE <<s>>

Marker == <<"[","q","u","e","r","y","]">>
HttpPrefix == <<"h","t","t","p",":","/","/">>

\* the exception analyze_query_string raises on query_string, or "none"
AnalyzeQueryError(query_string) ==
    IF ~Contains(query_string, Marker) THEN "AssertionError"
    ELSE IF Len(Split(query_string, ":")) < 2 THEN "IndexError"
    ELSE "none"

\* the list analyze_query_string returns when it raises nothing
analyze_query_string(query_string) ==
    Split(Split(query_string, ":")[2], ",")

(***************************************************************************)
(* re.finditer(r"\[(\d+)\]\s+(.+?),\s+(http://.+?);", reference_string)    *)
(* with the backtracking order of the re module: greedy \d+ and \s+,       *)
(* lazy .+? ('.' matches everything but a newline).                        *)
(***************************************************************************)
\* the first index >= i whose character is not in set cs (Len(s)+1 if none)
RECURSIVE SkipWhile(_, _, _)
SkipWhile(s, i, cs) ==
    IF i <= Len(s) /\ s[i] \in cs THEN SkipWhile(s, i + 1, cs) ELSE i

NoNewline(s, a, b) == \A k \in a..b : s[k] # "\n"

\* s[t] is the "," that ends the title: the index after the match, else 0
RestMatch(s, t) ==
    IF t <= Len(s) /\ s[t] = ","
    THEN LET u == SkipWhile(s, t + 1, Whitespace)
         IN  IF u > t + 1 /\ StartsAt(s, u, HttpPrefix)
             THEN LET first == u + Len(HttpPrefix) + 1
                      ends == {e \in first..Len(s) :
                                  s[e] = ";" /\ NoNewline(s, u, e - 1)}
                  IN  IF ends = {} THEN 0
                      ELSE (CHOOSE e \in ends : \A f \in ends : e <= f) + 1
             ELSE 0
    ELSE 0

\* the title starts at w: the index of the "," that ends the shortest title
TitleEnd(s, w) ==
    LET ts == {t \in (w + 1)..Len(s) :
                  NoNewline(s, w, t - 1) /\ RestMatch(s, t) # 0}
    IN  IF ts = {} THEN 0 ELSE CHOOSE t \in ts : \A x \in ts : t <= x

\* a match starting at i: [title, url, next], or next = 0 when there is none
MatchAt(s, i) ==
    LET none == [title |-> <<>>, url |-> <<>>, next |-> 0]
    IN  IF ~(i <= Len(s) /\ s[i] = "[") THEN none
        ELSE
        LET d == SkipWhile(s, i + 1, Digits)
        IN  IF ~(d > i + 1 /\ d <= Len(s) /\ s[d] = "]") THEN none
            ELSE
            LET wmax == SkipWhile(s, d + 1, Whitespace)
                ws == {w \in (d + 2)..wmax : TitleEnd(s, w) # 0}
            IN  IF ws = {} THEN none
                ELSE
                LET w == CHOOSE x \in ws : \A y \in ws : x >= y
                    t == TitleEnd(s, w)
                    u == SkipWhile(s, t + 1, Whitespace)
                    n == RestMatch(s, t)
                IN  [title |-> Slice(s, w, t - 1),
                     url |-> Slice(s, u, n - 2),
                     next |-> n]

RECURSIVE FindIter(_, _)
FindIter(s, i) ==
    IF i > Len(s) THEN <<>>
    ELSE LET m == MatchAt(s, i)
         IN  IF m.next = 0 THEN FindIter(s, i + 1)
             ELSE <<[title |-> m.title, url |-> m.url]>> \o FindIter(s, m.next)

analyze_reference_string(reference_string) == FindIter(reference_string, 1)


(***************************************************************************)
(* Inputs: what the collaborators answer.                                  *)
(***************************************************************************)
\* "[query]: a, b, c"
ReplyThree == <<"[","q","u","e","r","y","]",":"," ","a",","," ","b",","," ","c">>
\* "no marker here"
ReplyNoMarker == <<"n","o"," ","m","a","r","k","e","r"," ","h","e","r","e">>
\* "[query]: a, b"
ReplyTwo == <<"[","q","u","e","r","y","]",":"," ","a",","," ","b">>

\* the replies of the model to the keyword prompt (line 98)
KeywordReplies == {ReplyThree, ReplyNoMarker, ReplyTwo}

\* "[1] Title One(http://x);\n[2] Title Two(http://y);"
SynthParen == <<"[","1","]"," ","T","i","t","l","e"," ","O","n","e","(","h","t","t","p",":","/","/","x",")",";","\n","[","2","]"," ","T","i","t","l","e"," ","T","w","o","(","h","t","t","p",":","/","/","y",")",";">>

\* the replies of the model to the synthesis prompt (line 113)
SynthReplies == {SynthParen}

ReturnTypes == {"string", "original"}

(***************************************************************************)
(* State.                                                                  *)
(***************************************************************************)
VARIABLES
    reg,        \* broadcast_service: topic -> handlers in registration order
    refTools,   \* the ArxivReferenceTool instances, by identity
    sumTools,   \* the ArxivSummaryTool instances, by identity
    runs,       \* the calls of run(), in call order
    tasks,      \* the handler invocations submitted by publish, in order
    queue,      \* the invocations no worker thread has taken yet (FIFO)
    mainRet,    \* what the last finished call returned to the main thread
    nfail       \* the number of collaborator calls of handlers that raised

vars == <<reg, refTools, sumTools, runs, tasks, queue, mainRet, nfail>>

RefTopic == "ArxivReferenceTool.get_relevant_paper_info"
SumTopic == "ArxivSummaryTool.summary"

\* line 49-50: the fields of a new ArxivReferenceTool
NewRefTool == [reference_string |-> <<>>, reference_counter |-> 0]
\* line 137-138: the fields of a new ArxivSummaryTool
NewSumTool == [summary_string |-> <<>>, summary_counter |-> 0]

\* a call of run(): owner 0 is the main thread, otherwise the invocation of
\* get_references that makes the call (line 156)
NewRun(kind, inst, owner, pc) ==
    [kind |-> kind, inst |-> inst, owner |-> owner, pc |-> pc, reply |-> <<>>, keywords |-> <<>>, i |-> 1, err |-> "none"]

\* a handler invocation: handler h called with arg by the publish number
\* kw of call pub
NewTask(h, arg, pub, kw) ==
    [h |-> h, arg |-> arg, pub |-> pub, kw |-> kw, pc |-> "queued",
     rs |-> <<>>, rc |-> 0, child |-> 0]

\* the main thread holds no returned value
NoReturn == [call |-> 0, return_type |-> "string", reply |-> <<>>, value |-> <<>>]

RunIds == 1..Len(runs)
TaskIds == 1..Len(tasks)

\* the invocations that occupy a worker thread
Running == {t \in TaskIds : tasks[t].pc \in
                {"lookup", "taken", "nested", "readS", "writeS", "readC",
                 "writeC"}}

\* the completion counter a call waits on (lines 104, 182)
Counter(r) ==
    IF runs[r].kind = "ref"
    THEN refTools[runs[r].inst].reference_counter
    ELSE sumTools[runs[r].inst].summary_counter

\* the buffer a call reads at the end (lines 109, 185)
Buffer(r) ==
    IF runs[r].kind = "ref"
    THEN refTools[runs[r].inst].reference_string
    ELSE sumTools[runs[r].inst].summary_string

Init ==
    /\ reg = (RefTopic :> <<>>) @@ (SumTopic :> <<>>)
    /\ refTools = <<>>
    /\ sumTools = <<>>
    /\ runs = <<>>
    /\ tasks = <<>>
    /\ queue = <<>>
    /\ mainRet = NoReturn
    /\ nfail = 0

(***************************************************************************)
(* broadcast_service                                                       *)
(***************************************************************************)
\* on_listen(topic)(fn): the handler is appended to the topic's list
Register(r, topic, hs) == [r EXCEPT ![topic] = @ \o hs]

\* the invocations one publish submits: one per handler of the topic
Invocations(hs, arg, pub, kw) == [k \in 1..Len(hs) |-> NewTask(hs[k], arg, pub, kw)]


\* the handler closures one call of run() creates (lines 66, 141, 153, 161)
RefHandlers(inst, r) ==
    <<[fn |-> "get_relevant_paper_info", inst |-> inst, run |-> r]>>
\* as if the second "def get_opinion" replaced the first on the topic
SumHandlersTwo(inst, r) ==
    <<[fn |-> "get_references", inst |-> inst, run |-> r],
      [fn |-> "get_opinion2", inst |-> inst, run |-> r]>>
SumHandlers(inst, r) ==
    <<[fn |-> "get_opinion", inst |-> inst, run |-> r],
      [fn |-> "get_references", inst |-> inst, run |-> r],
      [fn |-> "get_opinion2", inst |-> inst, run |-> r]>>

(***************************************************************************)
(* The main thread calls run() on a new or on an earlier tool instance.    *)
(***************************************************************************)
TopRuns == {r \in RunIds : runs[r].owner = 0}
MainIdle == \A r \in TopRuns : runs[r].pc \in {"done", "error"}
MainTools(kind) == {runs[r].inst : r \in {x \in TopRuns : runs[x].kind = kind}}

\* ArxivReferenceTool.run, line 66: the call registers its handler
CallRefRun(inst) ==
    /\ MainIdle
    /\ Cardinality(TopRuns) < MaxRuns
    /\ inst \in MainTools("ref") \cup {Len(refTools) + 1}
    /\ refTools' = IF inst > Len(refTools)
                   THEN Append(refTools, NewRefTool) ELSE refTools
    /\ runs' = Append(runs, NewRun("ref", inst, 0, "reset"))
    /\ reg' = Register(reg, RefTopic, RefHandlers(inst, Len(runs) + 1))
    /\ mainRet' = NoReturn
    /\ UNCHANGED <<sumTools, tasks, queue, nfail>>

\* ArxivSummaryTool.run, lines 141-170: the call registers three handlers
CallSumRun(inst) ==
    /\ MainIdle
    /\ Cardinality(TopRuns) < MaxRuns
    /\ inst \in MainTools("sum") \cup {Len(sumTools) + 1}
    /\ sumTools' = IF inst > Len(sumTools)
                   THEN Append(sumTools, NewSumTool) ELSE sumTools
    /\ runs' = Append(runs, NewRun("sum", inst, 0, "query"))
    /\ reg' = Register(reg, SumTopic, SumHandlers(inst, Len(runs) + 1))
    /\ mainRet' = NoReturn
    /\ UNCHANGED <<refTools, tasks, queue, nfail>>

(***************************************************************************)
(* ArxivReferenceTool.run                                                  *)
(***************************************************************************)
\* line 91: self.reference_counter = 0
ResetCounter(r) ==
    /\ runs[r].kind = "ref" /\ runs[r].pc = "reset"
    /\ refTools' = [refTools EXCEPT ![runs[r].inst].reference_counter = 0]
    /\ runs' = [runs EXCEPT ![r].pc = "derive"]
    /\ UNCHANGED <<reg, sumTools, tasks, queue, mainRet, nfail>>

\* line 98: keywords = analyze_query_string(self.llm(prompt))
DeriveKeywords(r, reply) ==
    /\ runs[r].kind = "ref" /\ runs[r].pc = "derive"
    /\ LET e == AnalyzeQueryError(reply)
       IN  runs' = [runs EXCEPT ![r] =
               IF e # "none"
               THEN [@ EXCEPT !.pc = "error", !.err = e, !.reply = reply]
               ELSE [@ EXCEPT !.pc = "dispatch", !.reply = reply,
                              !.keywords = analyze_query_string(reply)]]
    /\ UNCHANGED <<reg, refTools, sumTools, tasks, queue, mainRet, nfail>>

\* lines 99-102: one iteration of the loop publishes one keyword
Dispatch(r) ==
    /\ runs[r].kind = "ref" /\ runs[r].pc = "dispatch"
    /\ LET i == runs[r].i
           new == Invocations(reg[RefTopic], runs[r].keywords[i], r, i)
       IN  /\ tasks' = tasks \o new
           /\ queue' = queue \o [k \in 1..Len(new) |-> Len(tasks) + k]
           /\ runs' = [runs EXCEPT ![r].i = i + 1,
                          ![r].pc = IF i = Len(runs[r].keywords)
                                    THEN "wait" ELSE "dispatch"]
    /\ UNCHANGED <<reg, refTools, sumTools, mainRet, nfail>>

\* lines 104-105 and 182-183: the loop is left when its test fails
Threshold == 3
WaitTestEarly(counter) == counter < Threshold - 1
WaitTest(counter) == counter < Threshold

WaitExit(r) ==
    /\ runs[r].pc = "wait"
    /\ ~WaitTest(Counter(r))
    /\ runs' = [runs EXCEPT ![r].pc = "synth"]
    /\ UNCHANGED <<reg, refTools, sumTools, tasks, queue, mainRet, nfail>>

\* lines 104-105 and 182-183: the test holds, the thread sleeps
WaitSleep(r) ==
    /\ runs[r].pc = "wait"
    /\ WaitTest(Counter(r))
    /\ runs' = [runs EXCEPT ![r].pc = "sleep"]
    /\ UNCHANGED <<reg, refTools, sumTools, tasks, queue, mainRet, nfail>>

\* lines 105 and 183: time.sleep(0.2) returns, the loop tests again
WaitWake(r) ==
    /\ runs[r].pc = "sleep"
    /\ runs' = [runs EXCEPT ![r].pc = "wait"]
    /\ UNCHANGED <<reg, refTools, sumTools, tasks, queue, mainRet, nfail>>

\* the call is in its wait loop
InWaitLoop(r) == runs[r].pc \in {"wait", "sleep"}

\* lines 115-117: the value returned for the model's reply
RefResult(return_type, result) ==
    IF return_type = "original"
    THEN analyze_reference_string(result) ELSE result

\* lines 107-117: the synthesis prompt, the model's reply, the return;
\* a call made by get_references passes no return_type (line 156)
Synthesize(r, result, rt) ==
    /\ runs[r].kind = "ref" /\ runs[r].pc = "synth"
    /\ runs[r].owner # 0 => rt = "string" /\ result = SynthParen
    /\ runs' = [runs EXCEPT ![r].pc = "done"]
    /\ mainRet' = IF runs[r].owner = 0
                  THEN [call |-> r, return_type |-> rt, reply |-> result,
                        value |-> RefResult(rt, result)]
                  ELSE mainRet
    /\ UNCHANGED <<reg, refTools, sumTools, tasks, queue, nfail>>

(***************************************************************************)
(* ArxivSummaryTool.run                                                    *)
(***************************************************************************)
\* the paper metadata of call r (line 172)
PaperSummary(r) == <<"paper_summary", r, r>>

\* lines 172-178: self.summary_string = paper_summary
QueryPaper(r) ==
    /\ runs[r].kind = "sum" /\ runs[r].pc = "query"
    /\ sumTools' = [sumTools EXCEPT
                       ![runs[r].inst].summary_string = <<PaperSummary(r)>>]
    /\ runs' = [runs EXCEPT ![r].pc = "publish"]
    /\ UNCHANGED <<reg, refTools, tasks, queue, mainRet, nfail>>

\* line 180: broadcast_service.publish("ArxivSummaryTool.summary")
Publish(r) ==
    /\ runs[r].kind = "sum" /\ runs[r].pc = "publish"
    /\ LET new == Invocations(reg[SumTopic], <<>>, r, 1)
       IN  /\ tasks' = tasks \o new
           /\ queue' = queue \o [k \in 1..Len(new) |-> Len(tasks) + k]
    /\ runs' = [runs EXCEPT ![r].pc = "wait", ![r].i = 2]
    /\ UNCHANGED <<reg, refTools, sumTools, mainRet, nfail>>

\* line 185: return self.summary_string
ReturnSummary(r) ==
    /\ runs[r].kind = "sum" /\ runs[r].pc = "synth"
    /\ runs' = [runs EXCEPT ![r].pc = "done"]
    /\ mainRet' = [call |-> r, return_type |-> "string", reply |-> <<>>,
                   value |-> Buffer(r)]
    /\ UNCHANGED <<reg, refTools, sumTools, tasks, queue, nfail>>


(***************************************************************************)
(* Handler invocations, executed by the worker threads                     *)
(***************************************************************************)
\* the text one handler invocation appends (lines 75, 149, 157, 168)
Fragment(t) ==
    IF tasks[t].h.fn = "get_relevant_paper_info"
    THEN <<"queryset", 0, tasks[t].pub>>
    ELSE <<tasks[t].h.fn, tasks[t].h.run, tasks[t].pub>>

OnRefTool(t) == tasks[t].h.fn = "get_relevant_paper_info"

\* as if the increment were in a "finally" of the handler
AfterLookupCounted(ok) == IF ok THEN "readS" ELSE "readC"
\* where the handler goes on after its collaborator call (lines 72, 148,
\* 167): to its first "+=", or out of the handler when the call raised
AfterLookup(ok) == IF ok THEN "readS" ELSE "done"

\* a free worker takes the oldest queued invocation and starts the handler:
\* get_opinion and get_relevant_paper_info stand in their blocking
\* collaborator call (lines 72-74, 148, 167), get_references (lines 154-156)
\* has not yet reached line 66 of the run() it calls
TaskTake(t) ==
    /\ queue # <<>> /\ t = Head(queue)
    /\ Cardinality(Running) < NumWorkers
    /\ queue' = Tail(queue)
    /\ tasks' = [tasks EXCEPT ![t].pc =
                    IF tasks[t].h.fn = "get_references"
                    THEN "taken" ELSE "lookup"]
    /\ UNCHANGED <<reg, refTools, sumTools, runs, mainRet, nfail>>

\* lines 72-74, 148, 167: the collaborator call answers (ok) or raises
TaskLookup(t, ok) ==
    /\ tasks[t].pc = "lookup"
    /\ ~ok => nfail < MaxFailures
    /\ nfail' = IF ok THEN nfail ELSE nfail + 1
    /\ tasks' = [tasks EXCEPT ![t].pc = AfterLookup(ok)]
    /\ UNCHANGED <<reg, refTools, sumTools, runs, queue, mainRet>>

\* get_references, lines 155-156 and 66: the new ArxivReferenceTool, whose
\* run() registers its handler; no other thread sees the instance or the
\* call before this step, and calls are numbered in the order they register
TaskStartNested(t) ==
    /\ tasks[t].pc = "taken"
    /\ refTools' = Append(refTools, NewRefTool)
    /\ runs' = Append(runs, NewRun("ref", Len(refTools) + 1, t, "reset"))
    /\ reg' = Register(reg, RefTopic, RefHandlers(Len(refTools) + 1, Len(runs) + 1))
    /\ tasks' = [tasks EXCEPT ![t].pc = "nested", ![t].child = Len(runs) + 1]
    /\ UNCHANGED <<sumTools, queue, mainRet, nfail>>

\* line 156: the nested run() returns its references, or its exception
\* ends the invocation
TaskNestedReturn(t) ==
    /\ tasks[t].pc = "nested"
    /\ runs[tasks[t].child].pc \in {"done", "error"}
    /\ tasks' = [tasks EXCEPT ![t].pc =
                    IF runs[tasks[t].child].pc = "done"
                    THEN "readS" ELSE "done"]
    /\ UNCHANGED <<reg, refTools, sumTools, runs, queue, mainRet, nfail>>

\* lines 75, 149, 157, 168: "+=" reads the buffer ...
TaskReadS(t) ==
    /\ tasks[t].pc = "readS"
    /\ tasks' = [tasks EXCEPT ![t].pc = "writeS",
                    ![t].rs = IF OnRefTool(t)
                              THEN refTools[tasks[t].h.inst].reference_string
                              ELSE sumTools[tasks[t].h.inst].summary_string]
    /\ UNCHANGED <<reg, refTools, sumTools, runs, queue, mainRet, nfail>>

\* the new value "+=" stores: what it read, extended by the fragment
Appended(old, fragment) == Append(old, fragment)

\* ... and stores the concatenation
TaskWriteS(t) ==
    /\ tasks[t].pc = "writeS"
    /\ LET new == Appended(tasks[t].rs, Fragment(t))
       IN  IF OnRefTool(t)
           THEN /\ refTools' = [refTools EXCEPT
                                   ![tasks[t].h.inst].reference_string = new]
                /\ UNCHANGED sumTools
           ELSE /\ sumTools' = [sumTools EXCEPT
                                   ![tasks[t].h.inst].summary_string = new]
                /\ UNCHANGED refTools
    /\ tasks' = [tasks EXCEPT ![t].pc = "readC", ![t].rs = <<>>]
    /\ UNCHANGED <<reg, runs, queue, mainRet, nfail>>

\* lines 76, 151, 159, 170: "+= 1" reads the counter ...
TaskReadC(t) ==
    /\ tasks[t].pc = "readC"
    /\ tasks' = [tasks EXCEPT ![t].pc = "writeC",
                    ![t].rc = IF OnRefTool(t)
                              THEN refTools[tasks[t].h.inst].reference_counter
                              ELSE sumTools[tasks[t].h.inst].summary_counter]
    /\ UNCHANGED <<reg, refTools, sumTools, runs, queue, mainRet, nfail>>

\* the new value "+= 1" stores
Incremented(old) == old + 1

\* ... and stores the sum; the invocation ends and frees its worker
TaskWriteC(t) ==
    /\ tasks[t].pc = "writeC"
    /\ LET new == Incremented(tasks[t].rc)
       IN  IF OnRefTool(t)
           THEN /\ refTools' = [refTools EXCEPT
                                   ![tasks[t].h.inst].reference_counter = new]
                /\ UNCHANGED sumTools
           ELSE /\ sumTools' = [sumTools EXCEPT
                                   ![tasks[t].h.inst].summary_counter = new]
                /\ UNCHANGED refTools
    /\ tasks' = [tasks EXCEPT ![t].pc = "done", ![t].rc = 0]
    /\ UNCHANGED <<reg, runs, queue, mainRet, nfail>>

(***************************************************************************)
(* Specification                                                           *)
(***************************************************************************)
MainStep ==
    \/ CallRefRun(Len(refTools) + 1)
    \/ \E inst \in 1..Len(refTools) : CallRefRun(inst)
    \/ CallSumRun(Len(sumTools) + 1)
    \/ \E inst \in 1..Len(sumTools) : CallSumRun(inst)

\* the steps of a call of run() other than the polling of its wait loop
RunProgress(r) ==
    \/ ResetCounter(r)
    \/ \E reply \in KeywordReplies : DeriveKeywords(r, reply)
    \/ Dispatch(r)
    \/ WaitExit(r)
    \/ \E result \in SynthReplies, rt \in ReturnTypes : Synthesize(r, result, rt)
    \/ QueryPaper(r)
    \/ Publish(r)
    \/ ReturnSummary(r)

\* the polling of the wait loop
RunPoll(r) ==
    \/ WaitSleep(r)
    \/ WaitWake(r)

RunStep(r) == RunProgress(r) \/ RunPoll(r)

TaskStep(t) ==
    \/ TaskTake(t)
    \/ \E ok \in BOOLEAN : TaskLookup(t, ok)
    \/ TaskStartNested(t)
    \/ TaskNestedReturn(t)
    \/ TaskReadS(t)
    \/ TaskWriteS(t)
    \/ TaskReadC(t)
    \/ TaskWriteC(t)

Next ==
    \/ MainStep
    \/ \E r \in RunIds : RunStep(r)
    \/ \E t \in TaskIds : TaskStep(t)

Spec == Init /\ [][Next]_vars

\* Threads that can take a step are scheduled: the thread of a call of run()
\* and the worker threads.  The main thread is free to make no further call.
\* The polling of a wait loop is kept apart, so that a polling thread does
\* not count as progress of the threads it waits for.
ProgressStep ==
    \/ \E r \in RunIds : RunProgress(r)
    \/ \E t \in TaskIds : TaskStep(t)

PollStep == \E r \in RunIds : RunPoll(r)

FairSpec == Spec /\ WF_vars(ProgressStep) /\ WF_vars(PollStep)


(***************************************************************************)
(* Properties                                                              *)
(***************************************************************************)
\* C1: a call of ArxivReferenceTool.run or ArxivSummaryTool.run leaves its
\* wait loop only in a state where the completion counter of its tool is
\* at least 3.
WaitNeverReturnsEarly ==
    [][\A r \in RunIds :
          (InWaitLoop(r) /\ runs'[r].pc \notin {"wait", "sleep"})
              => Counter(r) >= Threshold]_vars

\* a call of each tool has left its wait loop
WaitLeft ==
    /\ \E r \in RunIds : runs[r].kind = "ref" /\ runs[r].pc \in {"synth", "done"}
    /\ \E r \in RunIds : runs[r].kind = "sum" /\ runs[r].pc \in {"synth", "done"}


\* every submitted handler invocation has ended
Quiescent == queue = <<>> /\ Running = {}

\* the invocations on a tool that ran to completion; an invocation of
\* get_references ends without an increment when its nested call raised
Completed(onRef, inst) ==
    {t \in TaskIds :
        /\ OnRefTool(t) = onRef
        /\ tasks[t].h.inst = inst
        /\ tasks[t].pc = "done"
        /\ tasks[t].child # 0 => runs[tasks[t].child].pc = "done"}

\* the calls of ArxivReferenceTool.run on instance inst
RefRunsOn(inst) == {r \in RunIds : runs[r].kind = "ref" /\ runs[r].inst = inst}

\* C2: when K handler invocations on one tool instance have run to
\* completion (no collaborator raised), the completion counter is exactly K
\* higher than it started: summary_counter starts at 0 and is never reset,
\* reference_counter is set to 0 by the one call made on the instance.
NoLostIncrement ==
    (Quiescent /\ nfail = 0) =>
        /\ \A s \in 1..Len(sumTools) :
              sumTools[s].summary_counter = Cardinality(Completed(FALSE, s))
        /\ \A i \in 1..Len(refTools) :
              (Cardinality(RefRunsOn(i)) = 1
                  /\ \A r \in RefRunsOn(i) : runs[r].pc # "reset")
              => refTools[i].reference_counter = Cardinality(Completed(TRUE, i))


\* the most calls of run() one process makes: those of the main thread and
\* the nested ones, one per invocation of a get_references handler
MaxCalls == MaxRuns + (MaxRuns * (MaxRuns + 1)) \div 2

\* C3: every call of ArxivReferenceTool.run or ArxivSummaryTool.run that
\* reaches its wait loop eventually leaves it (through a timeout when the
\* counter never reaches 3).
EveryWaitEnds ==
    \A r \in 1..MaxCalls :
        (r \in RunIds /\ InWaitLoop(r))
            ~> (r \in RunIds /\ ~InWaitLoop(r))

\* C4: in a process with no handler registered before, a call of
\* ArxivReferenceTool.run whose model reply holds three keywords and whose
\* lookups all succeed eventually returns, with reference_counter = 3 and a
\* non-empty reference_string at that moment.
FirstReferenceRunReturns ==
    (/\ runs # <<>>
     /\ runs[1].kind = "ref"
     /\ runs[1].reply = ReplyThree
     /\ runs[1].pc = "wait"
     /\ nfail = 0)
        ~> (\/ nfail > 0
            \/ /\ runs # <<>>
               /\ runs[1].pc = "done"
               /\ refTools[runs[1].inst].reference_counter = Threshold
               /\ refTools[runs[1].inst].reference_string # <<>>)


\* call r is about to publish its first event (lines 100, 180)
AtFirstPublish(r) ==
    \/ runs[r].kind = "ref" /\ runs[r].pc = "dispatch" /\ runs[r].i = 1
    \/ runs[r].kind = "sum" /\ runs[r].pc = "publish"

\* fragment f was appended by a handler for a publish of a call before r
FromEarlierRun(f, r) == f[1] # "paper_summary" /\ f[3] < r

\* C5: when a call of run() publishes its first event, the completion
\* counter of its tool is 0 and the buffer holds no handler fragment written
\* during an earlier call.
FreshAccumulator ==
    \A r \in RunIds :
        AtFirstPublish(r) =>
            /\ Counter(r) = 0
            /\ \A k \in 1..Len(Buffer(r)) : ~FromEarlierRun(Buffer(r)[k], r)

\* C6: the string ArxivSummaryTool.run returns starts with the paper
\* metadata of this call and contains the fragment of each of the three
\* handlers this call registered.
SummaryHoldsAllFragments ==
    \A r \in RunIds :
        (mainRet.call = r /\ runs[r].kind = "sum") =>
            /\ mainRet.value # <<>>
            /\ mainRet.value[1] = PaperSummary(r)
            /\ \A fn \in {"get_opinion", "get_references", "get_opinion2"} :
                  \E k \in 1..Len(mainRet.value) : mainRet.value[k] = <<fn, r, r>>

Topic(r) == IF runs[r].kind = "ref" THEN RefTopic ELSE SumTopic
CallsOf(kind) == {r \in RunIds : runs[r].kind = kind}

\* the positions on the topic of the handlers registered by call r or before
RegisteredBy(topic, r) == {j \in 1..Len(reg[topic]) : reg[topic][j].run <= r}

\* the invocations of handler h submitted by publish number p of call r
InvocationsOf(r, p, h) ==
    {t \in TaskIds : tasks[t].pub = r /\ tasks[t].kw = p /\ tasks[t].h = h}

\* C7: after k calls of run() the topic of ArxivReferenceTool holds k
\* handlers and the topic of ArxivSummaryTool 3k, and every publish of the
\* k-th call has invoked each of them exactly once, the handlers left by the
\* earlier calls included (a handler registered later, by a concurrent
\* nested call, at most once).
PublishReachesEveryHandler ==
    /\ Len(reg[RefTopic]) = Cardinality(CallsOf("ref"))
    /\ Len(reg[SumTopic]) = 3 * Cardinality(CallsOf("sum"))
    /\ \A r \in RunIds :
          /\ Cardinality(RegisteredBy(RefTopic, r)) =
                 Cardinality({x \in CallsOf("ref") : x <= r})
          /\ Cardinality(RegisteredBy(SumTopic, r)) =
                 3 * Cardinality({x \in CallsOf("sum") : x <= r})
          /\ \A p \in 1..(runs[r].i - 1) :
                \A j \in 1..Len(reg[Topic(r)]) :
                    LET n == Cardinality(InvocationsOf(r, p, reg[Topic(r)][j]))
                    IN  IF j \in RegisteredBy(Topic(r), r) THEN n = 1 ELSE n <= 1

\* a second call of each tool has published to the handlers of two calls
SecondCallsPublished ==
    /\ \E r \in CallsOf("ref") :
          runs[r].i > 1 /\ Cardinality(RegisteredBy(RefTopic, r)) >= 2
    /\ \E r \in CallsOf("sum") :
          runs[r].i > 1 /\ Cardinality(RegisteredBy(SumTopic, r)) >= 6

\* C8: a keyword reply without the marker "[query]" makes
\* ArxivReferenceTool.run fail with the error kind MalformedModelOutput,
\* publish no keyword and never enter the wait loop.
MarkerAbsentIsMalformedModelOutput ==
    \A r \in RunIds :
        (runs[r].reply # <<>> /\ ~Contains(runs[r].reply, Marker)) =>
            /\ runs[r].pc = "error"
            /\ runs[r].err = "MalformedModelOutput"
            /\ runs[r].i = 1

\* C9: the keywords derived from a reply "[query]: k1, k2, k3" are the bare
\* k1, k2, k3, without the blank that follows a separator; "[query]: a, b, c"
\* gives ["a", "b", "c"].
KeywordsAreBare ==
    \A r \in RunIds :
        /\ \A k \in 1..Len(runs[r].keywords) :
              runs[r].keywords[k] # <<>> /\ runs[r].keywords[k][1] # " "
        /\ runs[r].reply = ReplyThree =>
              runs[r].keywords = <<<<"a">>, <<"b">>, <<"c">>>>

\* C10: with return_type = "original", the reply
\* "[1] Title One(http://x);\n[2] Title Two(http://y);" is returned as the
\* records (Title One, http://x), (Title Two, http://y), one per line.
StructuredReferences ==
    (/\ mainRet.call # 0
     /\ runs[mainRet.call].kind = "ref"
     /\ mainRet.return_type = "original"
     /\ mainRet.reply = SynthParen) =>
        mainRet.value =
            <<[title |-> <<"T","i","t","l","e"," ","O","n","e">>,
               url |-> <<"h","t","t","p",":","/","/","x">>],
              [title |-> <<"T","i","t","l","e"," ","T","w","o">>,
               url |-> <<"h","t","t","p",":","/","/","y">>]>>

\* the handler fragments in the buffer of call r that a publish of call r
\* produced
OwnFragments(r) ==
    {k \in 1..Len(Buffer(r)) :
        Buffer(r)[k][1] # "paper_summary" /\ Buffer(r)[k][3] = r}

\* the invocations submitted by the publishes of call r
TriggeredBy(r) == {t \in TaskIds : tasks[t].pub = r}

\* C11: whenever a call of ArxivReferenceTool.run has left its wait loop
\* and builds the synthesis prompt, reference_string holds a lookup fragment
\* of this call for every keyword derived from the reply, and no handler
\* invocation triggered by this call is still queued or running.
GateOpensAfterEveryKeyword ==
    \A r \in RunIds :
        (runs[r].kind = "ref" /\ runs[r].pc = "synth") =>
            /\ Cardinality(OwnFragments(r)) >= Len(runs[r].keywords)
            /\ \A t \in TriggeredBy(r) : tasks[t].pc = "done"

\* the calls of ArxivSummaryTool.run on instance inst
SumRunsOn(inst) == {r \in RunIds : runs[r].kind = "sum" /\ runs[r].inst = inst}

\* C12: when K handler invocations have appended to the same buffer and all
\* ran to completion, the buffer holds all K fragments under every
\* interleaving of their read and write steps: reference_string, never
\* assigned by run(), holds one fragment per completed invocation, and
\* summary_string holds the paper metadata of the one call made on the
\* instance followed by one fragment per completed invocation.
AllAppendsKept ==
    (Quiescent /\ nfail = 0) =>
        /\ \A i \in 1..Len(refTools) :
              Len(refTools[i].reference_string) =
                  Cardinality(Completed(TRUE, i))
        /\ \A s \in 1..Len(sumTools) :
              (Cardinality(SumRunsOn(s)) = 1
                  /\ \A r \in SumRunsOn(s) : runs[r].pc # "query")
              => Len(sumTools[s].summary_string) =
                     1 + Cardinality(Completed(FALSE, s))

\* call r has published its first event and has not returned
BetweenPublishAndReturn(r) ==
    \/ runs[r].pc = "dispatch" /\ runs[r].i > 1
    \/ runs[r].pc \in {"wait", "sleep", "synth"}

\* C13: between the first publish of a call of run() and its return, no
\* step of a handler or of the orchestrator lowers the completion counter
\* (reference_counter, summary_counter) of the call's tool.
CounterNeverDecreases ==
    [][\A r \in RunIds :
          BetweenPublishAndReturn(r) =>
              (IF runs[r].kind = "ref"
               THEN refTools'[runs[r].inst].reference_counter
               ELSE sumTools'[runs[r].inst].summary_counter) >= Counter(r)]_vars

\* the invocations that have stored their append / have ended
PastAppend == {t \in TaskIds : tasks[t].pc \in {"readC", "writeC", "done"}}
Ended == {t \in TaskIds : tasks[t].pc = "done"}

\* C14: a handler invocation whose lookup or model call raises, or whose
\* nested ArxivReferenceTool.run raises, ends in that step with the buffers
\* and counters of all tools unchanged, and an ended invocation never acts
\* again; so in a process whose only call is one ArxivReferenceTool.run, the
\* failed invocations are counted neither in reference_counter nor in the
\* fragments of reference_string.
FailedHandlerLeavesNoTrace ==
    [][/\ nfail' # nfail =>
              /\ \E t \in TaskIds :
                     tasks[t].pc = "lookup" /\ tasks'[t].pc = "done"
              /\ \A t \in TaskIds :
                     tasks'[t] # tasks[t] => tasks'[t].pc = "done"
              /\ refTools' = refTools /\ sumTools' = sumTools
       /\ \A t \in TaskIds :
              (/\ tasks[t].pc = "nested"
               /\ runs[tasks[t].child].pc = "error"
               /\ tasks'[t] # tasks[t])
                  => /\ tasks'[t].pc = "done"
                     /\ refTools' = refTools /\ sumTools' = sumTools
       /\ \A t \in Ended : tasks'[t] = tasks[t]
       /\ (Len(runs) = 1 /\ runs[1].kind = "ref") =>
              /\ refTools[1].reference_counter <= Cardinality(Ended) - nfail
              /\ Len(refTools[1].reference_string) <=
                     Cardinality(PastAppend) - nfail]_vars

\* one of the three lookups of a call raised: all invocations have ended,
\* two fragments and two completions are recorded, the call waits
FailedLookupNotCounted ==
    /\ Len(runs) = 1 /\ runs[1].kind = "ref" /\ InWaitLoop(1)
    /\ Len(tasks) = 3 /\ Quiescent /\ nfail = 1
    /\ refTools[1].reference_counter = 2
    /\ Len(refTools[1].reference_string) = 2

\* C15: in every state between the first publish of a call and its
\* return, the buffer of the call's tool holds at least as many handler
\* fragments appended since that publish as the value of the completion
\* counter (a handler appends before it increments).
FragmentsCoverCounter ==
    \A r \in RunIds :
        BetweenPublishAndReturn(r) =>
            Cardinality(OwnFragments(r)) >= Counter(r)

\* the invocations on ArxivReferenceTool instance a submitted by a call of
\* run() on another instance
ForeignInvocations(a) ==
    {t \in TaskIds :
        /\ OnRefTool(t)
        /\ tasks[t].h.inst = a
        /\ runs[tasks[t].pub].inst # a}

\* C16: a call of ArxivReferenceTool.run on instance B leaves
\* reference_string and reference_counter of every other instance A
\* unchanged: no step of an invocation that a call on B submitted changes
\* the fields of A, even when a handler of A is registered on the topic.
RunOnOtherInstanceLeavesFields ==
    [][\A a \in 1..Len(refTools) :
          \A t \in ForeignInvocations(a) :
              tasks'[t] # tasks[t] => refTools'[a] = refTools[a]]_vars

\* the invocations of get_references that occupy a worker thread while the
\* nested ArxivReferenceTool.run they called (line 156) polls its gate
HeldByNestedWait ==
    {t \in TaskIds :
        /\ tasks[t].pc = "nested"
        /\ InWaitLoop(tasks[t].child)
        /\ WaitTest(Counter(tasks[t].child))}

\* a call of ArxivSummaryTool.run waits on its gate, no collaborator call
\* has raised, and every worker thread is occupied by a get_references
\* handler waiting on the gate of its nested call
SummaryWaitsOnFullPool ==
    /\ \E r \in RunIds : runs[r].kind = "sum" /\ InWaitLoop(r)
    /\ nfail = 0
    /\ Cardinality(HeldByNestedWait) = NumWorkers

\* C17: a call of ArxivSummaryTool.run whose collaborators all respond
\* returns without deadlock, whatever the size of the worker pool and the
\* number of earlier calls: in a state in which the call waits and every
\* worker thread is occupied by a get_references handler waiting on the
\* gate of its nested ArxivReferenceTool.run, some thread can still take a
\* step other than the polling of a wait loop.
SummaryRunNeverDeadlocks == SummaryWaitsOnFullPool => ENABLED ProgressStep

====
